---- MODULE Spec2Model ----
(***************************************************************************)
(* ListDataSource (src/src/ListDataSource/js/ListDataSource.js): a data    *)
(* source that loads a list of data asynchronously into the sections of    *)
(* an ArrayDataSource.  The async methods performLoad, performLoadMore and *)
(* performSort run synchronously up to their single `await`, suspend while *)
(* the hook (load / loadMore) is pending, and resume when the hook's       *)
(* promise settles.  Each call is one action for the synchronous part and  *)
(* one action for the continuation; continuations of different calls run   *)
(* in the order in which the hooks settle.                                 *)
(***************************************************************************)
EXTENDS Integers, Sequences, FiniteSets, TLC

(* ---- bounds ----------------------------------------------------------- *)
MaxOps == 2            \* load-family calls made in one behaviour of Spec
MaxRaceOps == 3        \* load-family calls made in one behaviour of SpecRace
MaxBatchLen == 1       \* longest array a hook returns
MaxReloads == 1        \* reloadData() calls in one behaviour

Items == {"a", "b"}
SortDescriptors == {"asc"}
NoDescriptor == "undefined"          \* performLoad() called with no argument

VARIABLES
    sections,      \* this.sections of the ArrayDataSource: array of arrays
    pending,       \* the suspended calls, in order of initiation
    issued,        \* number of load-family calls made so far
    budget,        \* number of load-family calls the caller makes in all
    last,          \* the call that settled most recently
    prev,          \* the call that settled before it
    newest,        \* the call that was made most recently
    loaded,        \* what the loads and load-mores completed so far amount to
    reloadCalls,   \* number of reloadData() calls
    emitted,       \* number of 'reloadData' events emitted
    storeEvents,   \* number of store mutations made with change events on
    hookCalls,     \* number of invocations of the hooks load / loadMore
    reloadInFlight, \* reloadData() was called while a load-family call was suspended
    returned       \* the array a hook returned last, as its owner holds it

vars == <<sections, pending, issued, budget, last, prev, newest, loaded, reloadCalls, emitted,
          storeEvents, hookCalls, reloadInFlight, returned>>

(* ---- values a hook's promise settles with ----------------------------- *)
RECURSIVE SeqsUpTo(_)
SeqsUpTo(n) ==
    IF n = 0 THEN {<<>>}
    ELSE LET shorter == SeqsUpTo(n - 1)
         IN  shorter \cup {Append(s, x) : s \in {t \in shorter : Len(t) = n - 1}, x \in Items}

FetchOutcomes ==
    {[tag |-> "absent", items |-> <<>>], [tag |-> "failed", items |-> <<>>]}
    \cup {[tag |-> "array", items |-> b] : b \in SeqsUpTo(MaxBatchLen)}

NotYet == [tag |-> "pending", items |-> <<>>]

(* ---- the store (ArrayDataSource) --------------------------------------- *)
Min(a, b) == IF a < b THEN a ELSE b

clear(s) == <<>>

\* the array object a hook's promise resolved to
ArrayOf(r) == [id |-> "hook", items |-> r.items]

\* the array itself instead of a copy of it: items in place of items.slice()
slice_SameArray(a) == a

\* Array.prototype.slice(): a new array object with the same elements
slice(a) == [id |-> "copy", items |-> [i \in 1..Len(a.items) |-> a.items[i]]]

\* sections.splice(index, 0, items), index counted from 0
insertSection(s, index, items) ==
    LET at == Min(index, Len(s))
    IN  SubSeq(s, 1, at) \o <<items>> \o SubSeq(s, at + 1, Len(s))

\* sections[section].splice(index, 0, ...items), both counted from 0
insertItems(s, section, index, items) ==
    LET old == s[section + 1]
        at  == Min(index, Len(old))
    IN  [s EXCEPT ![section + 1] =
            SubSeq(old, 1, at) \o items \o SubSeq(old, at + 1, Len(old))]

\* a store mutation called with its notify argument: 1 event when it is on
notifyCount(flag) == IF flag THEN 1 ELSE 0

(* ---- ListDataSource: the pure parts of the methods --------------------- *)
\* this.clear() with the store's default for its flag
ClearNotify_Default == TRUE

\* the flag of the store mutations: clear(false), line 36
ClearNotify == FALSE

\* insertSection(0, items.slice(), false), line 40
InsertSectionNotify == FALSE

\* insertItems(indexPath, items.slice(), false), line 65
InsertItemsNotify == FALSE

\* this.load() called without the parameter
LoadArg_Dropped(sd) == NoDescriptor

\* line 38: this.load(sortDescriptor)
LoadArg(sd) == sd

\* line 63: this.loadMore()
LoadMoreArg == NoDescriptor

\* performLoad without line 36: the old sections stay while load() is pending
PerformLoadSync_KeepsData(s) == s

\* performLoad line 36: this.clear(false)
PerformLoadSync(s) == clear(s)

\* performLoad with the test of performLoadMore: if (items && items.length > 0)
PerformLoadCont_SkipsEmpty(s, r) ==
    IF r.tag = "failed"
      THEN [sections |-> s, status |-> "rejected", err |-> "FetchFailure", ret |-> "none"]
    ELSE IF r.tag = "array" /\ Len(r.items) > 0
      THEN [sections |-> insertSection(s, 0, slice(ArrayOf(r)).items),
            status |-> "fulfilled", err |-> "none", ret |-> "undefined"]
    ELSE [sections |-> s, status |-> "fulfilled", err |-> "none", ret |-> "undefined"]

\* performLoad calling load() again when it failed, and awaiting it again
PerformLoadCont_Retries(s, r) ==
    IF r.tag = "failed"
      THEN [sections |-> s, status |-> "pending", err |-> "none", ret |-> "none"]
    ELSE IF r.tag = "array"
      THEN [sections |-> insertSection(s, 0, slice(ArrayOf(r)).items),
            status |-> "fulfilled", err |-> "none", ret |-> "undefined"]
    ELSE [sections |-> s, status |-> "fulfilled", err |-> "none", ret |-> "undefined"]

\* performLoad lines 38-41, after the await: r is what load() settled with
PerformLoadCont(s, r) ==
    IF r.tag = "failed"
      THEN [sections |-> s, status |-> "rejected", err |-> "FetchFailure", ret |-> "none"]
    ELSE IF r.tag = "array"                       \* if (items): [] is truthy
      THEN [sections |-> insertSection(s, 0, slice(ArrayOf(r)).items),
            status |-> "fulfilled", err |-> "none", ret |-> "undefined"]
    ELSE [sections |-> s, status |-> "fulfilled", err |-> "none", ret |-> "undefined"]

\* performLoadMore with the test of performLoad: if (items)
PerformLoadMoreCont_TakesEmpty(s, r) ==
    IF r.tag = "failed"
      THEN [sections |-> s, status |-> "rejected", err |-> "FetchFailure", ret |-> "none"]
    ELSE IF r.tag = "array"
      THEN IF Len(s) = 0
             THEN [sections |-> s, status |-> "rejected", err |-> "TypeError", ret |-> "none"]
             ELSE [sections |-> insertItems(s, 0, Len(s[Len(s)]), slice(ArrayOf(r)).items),
                   status |-> "fulfilled", err |-> "none", ret |-> "true"]
    ELSE [sections |-> s, status |-> "fulfilled", err |-> "none", ret |-> "false"]

\* performLoadMore with the await wrapped in try/catch: a failed loadMore()
\* is reported as "no more data"
PerformLoadMoreCont_Swallows(s, r) ==
    IF r.tag = "array" /\ Len(r.items) > 0
      THEN IF Len(s) = 0
             THEN [sections |-> s, status |-> "rejected", err |-> "TypeError", ret |-> "none"]
             ELSE [sections |-> insertItems(s, 0, Len(s[Len(s)]), slice(ArrayOf(r)).items),
                   status |-> "fulfilled", err |-> "none", ret |-> "true"]
    ELSE [sections |-> s, status |-> "fulfilled", err |-> "none", ret |-> "false"]

\* performLoadMore lines 63-69, after the await
PerformLoadMoreCont(s, r) ==
    IF r.tag = "failed"
      THEN [sections |-> s, status |-> "rejected", err |-> "FetchFailure", ret |-> "none"]
    ELSE IF r.tag = "array" /\ Len(r.items) > 0   \* items && items.length > 0
      THEN IF Len(s) = 0                          \* this.sections[-1].length
             THEN [sections |-> s, status |-> "rejected", err |-> "TypeError", ret |-> "none"]
             ELSE [sections |-> insertItems(s, 0, Len(s[Len(s)]), slice(ArrayOf(r)).items),
                   status |-> "fulfilled", err |-> "none", ret |-> "true"]
    ELSE [sections |-> s, status |-> "fulfilled", err |-> "none", ret |-> "false"]

\* performSort, line 78: this.performLoad(sortDescriptor) runs up to its await
PerformSortSync(s) == PerformLoadSync(s)

\* performSort forwarding the descriptor, line 78
SortArg(sd) == LoadArg(sd)

\* performSort with the await in try/catch: a failed load() is not reported
PerformSortCont_Swallows(s, r) ==
    IF r.tag = "failed"
      THEN [sections |-> s, status |-> "fulfilled", err |-> "none", ret |-> "undefined"]
      ELSE PerformLoadCont(s, r)

\* performSort, line 78, after load() settled: the awaited performLoad resumes
\* and performSort settles as it did
PerformSortCont(s, r) == PerformLoadCont(s, r)

\* line 40: the section insertSection stores is the array load() returned
\* itself, unless it is given a copy
Shares(r) == r.tag = "array" /\ slice(ArrayOf(r)).id = ArrayOf(r).id

\* every suspended call resumes and applies its result: there is no guard
Entitled(o) == o.status = "pending"

(* ---- bookkeeping of the calls ----------------------------------------- *)
IsLoad(o) == o.kind \in {"performLoad", "performSort"}
Quiescent == pending = <<>>

Kinds(os) == [i \in 1..Len(os) |-> os[i].kind]

NoOp ==
    [id |-> 0, kind |-> "none", sd |-> NoDescriptor,
     hook |-> "none", arg |-> NoDescriptor, fetches |-> 0,
     status |-> "none", fetched |-> NotYet, err |-> "none", ret |-> "none",
     pre |-> <<>>, started |-> <<>>, seen |-> <<>>, post |-> <<>>,
     touched |-> FALSE,
     overtook |-> <<>>, overlapped |-> FALSE, superseded |-> FALSE,
     supersededByLoad |-> FALSE]

NewOp(kind, sd, hook, arg, after) ==
    [NoOp EXCEPT
        !.id = issued + 1, !.kind = kind, !.sd = sd,
        !.hook = hook, !.arg = arg, !.fetches = 1,   \* the one hook invocation
        !.status = "pending",
        !.pre = sections,                \* the Collection when the call was made
        !.started = after,               \* the Collection when the call suspended
        !.overtook = Kinds(pending),     \* the calls in flight when it was made
        !.overlapped = pending # <<>>]   \* another call was in flight meanwhile

\* a new call is made: the calls still in flight are overlapped by it
Overtake(os, o) ==
    [i \in 1..Len(os) |->
        [os[i] EXCEPT !.overlapped = TRUE, !.superseded = TRUE,
                      !.supersededByLoad = @ \/ IsLoad(o)]]

Remove(os, i) == SubSeq(os, 1, i - 1) \o SubSeq(os, i + 1, Len(os))

\* the continuation of another call has changed the Collection under the
\* calls that are still suspended
Touch(os, changed) ==
    [i \in 1..Len(os) |-> [os[i] EXCEPT !.touched = @ \/ changed]]

\* the continuation invoked its hook again and suspended again
Refetch(os, i, r) ==
    [os EXCEPT ![i] = [@ EXCEPT !.fetches = @ + 1, !.fetched = r]]

\* the call o settles: r is what its hook settled with, out what the
\* continuation did
SettledOp(o, r, out) ==
    [o EXCEPT !.status = out.status, !.fetched = r, !.err = out.err, !.ret = out.ret,
              !.seen = sections,         \* the Collection when the hook settled
              !.post = out.sections]     \* the Collection when the call settled

\* the items the completed operations amount to: those of the last
\* completed load, followed by the batches of the load-mores completed after it
LoadedAfter(o, r, out) ==
    IF IsLoad(o) THEN r.items
    ELSE IF out.status = "fulfilled" THEN loaded \o r.items
    ELSE loaded

\* no array has been returned by a hook yet
NoArray == [exists |-> FALSE, items |-> <<>>, alias |-> 0, mutated |-> FALSE]

\* the array the hook returned with r; alias is the place of the section that
\* is this very array object, 0 when no section is
Returned(r, alias) == [exists |-> TRUE, items |-> r.items, alias |-> alias, mutated |-> FALSE]

(* ---- actions ----------------------------------------------------------- *)
Start(calls) ==
    /\ sections = <<>>
    /\ pending = <<>>
    /\ issued = 0
    /\ budget = calls
    /\ last = NoOp
    /\ prev = NoOp
    /\ newest = NoOp
    /\ loaded = <<>>
    /\ reloadCalls = 0
    /\ emitted = 0
    /\ storeEvents = 0
    /\ hookCalls = 0
    /\ reloadInFlight = FALSE
    /\ returned = NoArray

Init == Start(MaxOps)

\* the same program with a caller that makes one more call: three calls can overlap
InitRace == Start(MaxRaceOps)

Call(o) ==
    /\ issued < budget
    /\ issued' = issued + 1
    /\ pending' = Append(Overtake(pending, o), o)
    /\ newest' = o
    /\ hookCalls' = hookCalls + o.fetches
    /\ UNCHANGED <<budget, last, prev, loaded, reloadCalls, emitted, reloadInFlight>>

Resume(i, r, out, notify) ==
    LET done    == SettledOp(pending[i], r, out)
        changed == out.sections # sections
    IN  /\ sections' = out.sections
        /\ storeEvents' = storeEvents + (IF changed THEN notifyCount(notify) ELSE 0)
        /\ IF out.status = "pending"
             THEN /\ pending' = Touch(Refetch(pending, i, r), changed)
                  /\ hookCalls' = hookCalls + 1
                  /\ UNCHANGED <<last, prev, newest, loaded>>
             ELSE /\ pending' = Touch(Remove(pending, i), changed)
                  /\ last' = done
                  /\ prev' = last
                  /\ newest' = IF newest.id = done.id THEN done ELSE newest
                  /\ loaded' = LoadedAfter(pending[i], r, out)
                  /\ UNCHANGED hookCalls
        /\ UNCHANGED <<issued, budget, reloadCalls, emitted, reloadInFlight>>

\* the synchronous part of performLoad(sortDescriptor), lines 36-38
LoadCall(kind, sd, after, arg) ==
    /\ sections' = after
    /\ storeEvents' = storeEvents + notifyCount(ClearNotify)
    /\ returned' = IF after = sections THEN returned ELSE [returned EXCEPT !.alias = 0]
    /\ Call(NewOp(kind, sd, "load", arg, after))

performLoad ==
    \E sd \in SortDescriptors \cup {NoDescriptor} :
        LoadCall("performLoad", sd, PerformLoadSync(sections), LoadArg(sd))

\* performSort(sortDescriptor), line 78: await this.performLoad(sortDescriptor)
performSort ==
    \E sd \in SortDescriptors :
        LoadCall("performSort", sd, PerformSortSync(sections), SortArg(sd))

\* the synchronous part of performLoadMore(), line 63
performLoadMore ==
    /\ Call(NewOp("performLoadMore", NoDescriptor, "loadMore", LoadMoreArg, sections))
    /\ UNCHANGED <<sections, storeEvents, returned>>

\* load() settles and performLoad / performSort resumes, lines 38-42
LoadSettle ==
    \E i \in 1..Len(pending), r \in FetchOutcomes :
        /\ IsLoad(pending[i])
        /\ Resume(i, r,
                  IF pending[i].kind = "performSort"
                    THEN PerformSortCont(sections, r)
                    ELSE PerformLoadCont(sections, r),
                  InsertSectionNotify)
        /\ returned' = IF r.tag = "array"
                          THEN Returned(r, IF Shares(r) THEN 1 ELSE 0)
                          ELSE returned

\* loadMore() settles and performLoadMore resumes, lines 63-70
LoadMoreSettle ==
    \E i \in 1..Len(pending), r \in FetchOutcomes :
        /\ pending[i].kind = "performLoadMore"
        /\ Resume(i, r, PerformLoadMoreCont(sections, r), InsertItemsNotify)
        /\ returned' = IF r.tag = "array" THEN Returned(r, 0) ELSE returned

\* reloadData doing what its comment describes itself: the contents are cleared
reloadData_Clears ==
    /\ reloadCalls < MaxReloads
    /\ reloadCalls' = reloadCalls + 1
    /\ emitted' = emitted + 1
    /\ reloadInFlight' = (reloadInFlight \/ pending # <<>>)
    /\ sections' = clear(sections)
    /\ UNCHANGED <<pending, issued, budget, last, prev, newest, loaded, storeEvents, hookCalls,
                   returned>>

\* reloadData(), lines 49-51
reloadData ==
    /\ reloadCalls < MaxReloads
    /\ reloadCalls' = reloadCalls + 1
    /\ emitted' = emitted + 1                       \* this.emit('reloadData')
    /\ reloadInFlight' = (reloadInFlight \/ pending # <<>>)
    /\ UNCHANGED <<sections, pending, issued, budget, last, prev, newest, loaded,
                   storeEvents, hookCalls, returned>>

\* the owner of the array that load() / loadMore() returned pushes an item
\* onto it after the call has used it
ownerPush ==
    /\ returned.exists
    /\ ~returned.mutated
    /\ \E x \in Items :
          /\ returned' = [returned EXCEPT !.items = Append(@, x), !.mutated = TRUE]
          /\ sections' = IF returned.alias > 0
                           THEN [sections EXCEPT ![returned.alias] = Append(@, x)]
                           ELSE sections
    /\ UNCHANGED <<pending, issued, budget, last, prev, newest, loaded, reloadCalls, emitted,
                   storeEvents, hookCalls, reloadInFlight>>

Next ==
    \/ performLoad
    \/ performSort
    \/ performLoadMore
    \/ LoadSettle
    \/ LoadMoreSettle
    \/ reloadData

Spec == Init /\ [][Next]_vars

SpecRace == InitRace /\ [][Next]_vars

\* the program together with the owner of the arrays its hooks return
NextOwner ==
    \/ performLoad
    \/ performSort
    \/ performLoadMore
    \/ LoadSettle
    \/ LoadMoreSettle
    \/ ownerPush

SpecOwner == Init /\ [][NextOwner]_vars

(* ---- properties -------------------------------------------------------- *)
RECURSIVE Flat(_)
Flat(s) == IF s = <<>> THEN <<>> ELSE Head(s) \o Flat(Tail(s))

AppendToLast(s, items) == [s EXCEPT ![Len(s)] = @ \o items]

Yielded(o) == o.fetched.tag \in {"array", "absent"}     \* the hook did not fail
YieldedNothing(o) == Yielded(o) /\ o.fetched.items = <<>>

\* s holds the result r of one load() and nothing else
Reflects(s, r) ==
    \/ r.tag = "array" /\ s = <<r.items>>
    \/ r.items = <<>> /\ s = <<>>

\* the call that settled last was a performLoad with no other call in flight
\* between its start and its end, and load() did not fail
LoneLoadDone ==
    /\ last.kind = "performLoad"
    /\ ~last.overlapped
    /\ last.status = "fulfilled"

\* C1 as stated: after a performLoad() that was the only operation in flight
\* settles successfully with I, the Collection is <<I>> when I is non-empty
\* and has zero sections when I is empty or absent.
C1_LoadEmptyLeavesNoSection ==
    LoneLoadDone =>
        last.post = IF last.fetched.items # <<>> THEN <<last.fetched.items>> ELSE <<>>

\* C1 amended: after a performLoad() that was the only operation in flight
\* settles successfully, the Collection is <<I>> when load() returned an
\* array I, the empty array included, and has zero sections when load()
\* returned nothing; whatever it held before.
C1_LoadReplacesCollection ==
    LoneLoadDone =>
        last.post = IF last.fetched.tag = "array" THEN <<last.fetched.items>> ELSE <<>>

C1_Witness ==
    /\ LoneLoadDone
    /\ last.pre # <<>>
    /\ last.fetched.tag = "array"
    /\ last.fetched.items = <<>>
    /\ sections = last.post

\* C2: performLoad() is called, performSort(d) is called before the first
\* load() settles; once both have settled the Collection holds the result of
\* the sort's load(d) and nothing else, in either completion order.
C2_SortSupersedesLoad ==
    ( /\ Quiescent
      /\ newest.kind = "performSort"
      /\ newest.overtook = <<"performLoad">>
      /\ newest.status = "fulfilled" )
    => Reflects(sections, newest.fetched)

\* C3: at most one load-family call at a time is entitled to apply its
\* fetched result to the Collection.
C3_MutualExclusion ==
    Cardinality({i \in 1..Len(pending) : Entitled(pending[i])}) <= 1

\* C4: a performLoadMore() that was pending when a later performLoad or
\* performSort was called appends nothing when its loadMore() yields, and
\* raises no error.
C4_SupersededLoadMoreDiscarded ==
    ( /\ last.kind = "performLoadMore"
      /\ last.supersededByLoad
      /\ Yielded(last) )
    => /\ last.post = last.seen
       /\ last.status = "fulfilled"

\* C5: whenever no call is in flight the Collection has at most one section
\* and its items are those of the last completed load followed by the
\* batches of the load-mores completed after it.
C5_QuiescentContents ==
    Quiescent => /\ Len(sections) <= 1
                 /\ Flat(sections) = loaded

\* C6: whenever performLoadMore() reports true, the batch has been appended
\* to the last section and every earlier section is unchanged, for any
\* number of sections >= 1.
C6_LoadMoreAppendsToLast ==
    (last.kind = "performLoadMore" /\ last.ret = "true")
    => /\ Len(last.seen) >= 1
       /\ last.post = AppendToLast(last.seen, last.fetched.items)

\* C7: performLoadMore() reports false exactly when loadMore() yields an
\* empty array or nothing; when it reports false its continuation leaves
\* the Collection as it found it, and if no other call was in flight
\* meanwhile the Collection is what it was before the call.
C7_FalseMeansUnchanged ==
    last.kind = "performLoadMore" =>
        /\ (last.ret = "false") <=> YieldedNothing(last)
        /\ last.ret = "false" =>
              /\ last.post = last.seen
              /\ ~last.overlapped => last.post = last.pre

C7_Witness ==
    /\ last.kind = "performLoadMore"
    /\ last.ret = "false"
    /\ ~last.overlapped
    /\ last.pre # <<>>
    /\ last.fetched.tag = "array"

\* the errors that count as the InvalidState failure of C8
InvalidStateErrors == {"InvalidState", "TypeError"}

\* C8: performLoadMore() called on a Collection with zero sections fails
\* with an InvalidState error whatever loadMore() yields (a batch, an empty
\* array, nothing) and leaves the Collection with zero sections.
C8_LoadMoreOnEmptyFails ==
    ( /\ last.kind = "performLoadMore"
      /\ ~last.overlapped
      /\ last.pre = <<>>
      /\ Yielded(last) )
    => /\ last.status = "rejected"
       /\ last.err \in InvalidStateErrors
       /\ last.post = <<>>

\* C9: when load() fails during performLoad or performSort the call is
\* rejected with that failure, its continuation leaves the Collection as it
\* found it, and if no other call was in flight meanwhile the Collection is
\* empty: it is not restored to what it held before the call.
C9_LoadFailureLeavesEmpty ==
    (IsLoad(last) /\ last.fetched.tag = "failed")
    => /\ last.status = "rejected"
       /\ last.err = "FetchFailure"
       /\ last.post = last.seen
       /\ ~last.overlapped => last.post = <<>>

C9_Witness ==
    /\ IsLoad(last)
    /\ last.fetched.tag = "failed"
    /\ ~last.overlapped
    /\ last.pre # <<>>
    /\ sections = <<>>

\* C10: when loadMore() fails during performLoadMore the call is rejected
\* with that failure, its continuation leaves the Collection as it found
\* it, and if no other call was in flight meanwhile the Collection is what
\* it was before the call.
C10_LoadMoreFailureUnchanged ==
    (last.kind = "performLoadMore" /\ last.fetched.tag = "failed")
    => /\ last.status = "rejected"
       /\ last.err = "FetchFailure"
       /\ last.post = last.seen
       /\ ~last.overlapped => last.post = last.pre

C10_Witness ==
    /\ last.kind = "performLoadMore"
    /\ last.fetched.tag = "failed"
    /\ last.status = "rejected"
    /\ ~last.overlapped
    /\ last.pre # <<>>
    /\ sections = last.pre

\* the calls the model still knows: the suspended ones and the last settled
Known == {pending[i] : i \in 1..Len(pending)} \cup (IF last.id > 0 THEN {last} ELSE {})

C12_SortIsLoad ==
    last.kind = "performSort" =>
        LET asLoad == PerformLoadCont(last.seen, last.fetched)
        IN  /\ last.started = PerformLoadSync(last.pre)
            /\ last.hook = "load"
            /\ last.arg = LoadArg(last.sd)
            /\ last.post = asLoad.sections
            /\ last.status = asLoad.status
            /\ last.err = asLoad.err
            /\ last.ret = asLoad.ret

C12_Witness ==
    /\ last.kind = "performSort"
    /\ last.pre # <<>>
    /\ last.fetched.tag = "failed"
    /\ last.status = "rejected"

\* C13: performLoad() called twice in sequence, the second after the first
\* has settled, with the same result of load(), leaves the Collection the
\* first call left.
C13_LoadTwiceSameAsOnce ==
    ( /\ LoneLoadDone
      /\ prev.kind = "performLoad"
      /\ ~prev.overlapped
      /\ prev.status = "fulfilled"
      /\ prev.fetched = last.fetched )
    => last.post = prev.post

C13_Witness ==
    /\ LoneLoadDone
    /\ prev.kind = "performLoad"
    /\ ~prev.overlapped
    /\ prev.status = "fulfilled"
    /\ prev.fetched = last.fetched
    /\ last.fetched.tag = "array"
    /\ last.fetched.items # <<>>
    /\ sections = last.post

\* C14: from the call of performLoad / performSort until its load() settles
\* the Collection has zero sections, as long as no other call's continuation
\* has changed the Collection in between.
C14_EmptyWhileLoading ==
    \A i \in 1..Len(pending) :
        (IsLoad(pending[i]) /\ ~pending[i].touched)
        => /\ pending[i].started = <<>>
           /\ sections = <<>>

C14_Witness ==
    \E i \in 1..Len(pending) :
        /\ IsLoad(pending[i])
        /\ ~pending[i].touched
        /\ pending[i].pre # <<>>
        /\ sections = <<>>

\* C15: performLoad(d) and performSort(d) invoke load with exactly d,
\* performLoad() invokes it with no descriptor, and performLoadMore invokes
\* loadMore with no descriptor.
C15_DescriptorThreaded ==
    \A o \in Known :
        /\ IsLoad(o) => (o.hook = "load" /\ o.arg = o.sd)
        /\ o.kind = "performLoadMore" => (o.hook = "loadMore" /\ o.arg = NoDescriptor)

C15_Witness ==
    /\ last.kind = "performLoad"
    /\ last.sd = NoDescriptor
    /\ last.arg = NoDescriptor
    /\ \E i \in 1..Len(pending) :
          /\ pending[i].kind = "performSort"
          /\ pending[i].sd = "asc"
          /\ pending[i].arg = "asc"

\* C16: the load-family operations emit nothing: the number of reloadData
\* events equals the number of reloadData() calls, and no store mutation of
\* performLoad / performSort / performLoadMore fires a store change event.
C16_LoadsEmitNothing ==
    /\ emitted = reloadCalls
    /\ storeEvents = 0

C16_Witness ==
    /\ reloadCalls = 1
    /\ emitted = 1
    /\ last.kind = "performLoadMore"
    /\ last.ret = "true"
    /\ storeEvents = 0

\* C17: every load-family call invokes its hook exactly once, also when the
\* hook fails, and settles when that one invocation has settled: no call
\* stays suspended after its hook settled.
C17_OneFetchPerCall ==
    /\ hookCalls = issued
    /\ \A i \in 1..Len(pending) :
          /\ pending[i].fetches = 1
          /\ pending[i].fetched = NotYet
    /\ last.id > 0 =>
          /\ last.fetches = 1
          /\ last.fetched # NotYet
          /\ last.status \in {"fulfilled", "rejected"}

C17_Witness ==
    /\ IsLoad(last)
    /\ last.fetched.tag = "failed"
    /\ last.status = "rejected"
    /\ last.fetches = 1
    /\ hookCalls = 2
    /\ Quiescent

\* C18: the Collection holds a copy of the array load() / loadMore()
\* returned: when the owner of that array changes it afterwards, the
\* Collection does not change.
C18_CollectionHoldsCopy ==
    [][(~returned.mutated /\ returned'.mutated) => sections' = sections]_vars

C18_Witness ==
    /\ returned.mutated
    /\ last.kind = "performLoad"
    /\ last.fetched.tag = "array"
    /\ returned.items # last.fetched.items
    /\ sections = <<last.fetched.items>>

====
